---- MODULE Spec2Model ----
(***************************************************************************)
(* Model of detect_pension_fund_selling (src/python_s1.py, lines 105-152): *)
(* per-instrument rolling statistics, selling-signal classification and    *)
(* intensity normalisation over a table of weekly positioning records.     *)
(*                                                                         *)
(* A float64 cell is modelled as an exact fraction [num, den] in lowest    *)
(* terms with den >= 0; den = 0 encodes the IEEE special values:           *)
(* 0/0 is NaN (a missing cell), 1/0 is +inf and -1/0 is -inf.  Position    *)
(* counts are integers, so every value the transform computes is an exact  *)
(* rational and no rounding is involved.                                   *)
(*                                                                         *)
(* The table cot_df is the frame built at line 103.  Its position columns  *)
(* are float64 (a None cell reads as NaN), which is what the DataFrame     *)
(* constructor infers for a column holding at least one number; a column   *)
(* that is None in every row is object-typed and is not modelled.  The     *)
(* provider returns one record per date of a security, so dates are        *)
(* distinct within one instrument.                                         *)
(***************************************************************************)
EXTENDS Integers, Sequences, FiniteSets

\* ------------------------------------------------------------------------
\* Bounds of the model
\* ------------------------------------------------------------------------
\* longest input table
MaxRows == 3

\* largest long or short position count
MaxVal == 3

\* default of the window parameter (line 105)
DefaultWindow == 4

\* ------------------------------------------------------------------------
\* float64 values
\* ------------------------------------------------------------------------
NaN == [num |-> 0, den |-> 0]

F(n) == [num |-> n, den |-> 1]

IsNaN(x) == x.den = 0 /\ x.num = 0

IAbs(n) == IF n < 0 THEN -n ELSE n

Sign(n) == IF n < 0 THEN -1 ELSE IF n > 0 THEN 1 ELSE 0

RECURSIVE GCD(_, _)
GCD(a, b) == IF b = 0 THEN a ELSE GCD(b, a % b)

\* the fraction n/d (d > 0) in lowest terms
Rat(n, d) ==
    LET g == GCD(IAbs(n), d)
    IN  [num |-> Sign(n) * (IAbs(n) \div g), den |-> d \div g]

\* n/d for any d >= 0: the IEEE result when d = 0
Quot(n, d) == IF d = 0 THEN [num |-> Sign(n), den |-> 0] ELSE Rat(n, d)

FAdd(a, b) ==
    IF IsNaN(a) \/ IsNaN(b) THEN NaN
    ELSE IF a.den = 0 /\ b.den = 0 THEN (IF a.num = b.num THEN a ELSE NaN)
    ELSE IF a.den = 0 THEN a
    ELSE IF b.den = 0 THEN b
    ELSE Rat(a.num * b.den + b.num * a.den, a.den * b.den)

FNeg(a) == [num |-> -a.num, den |-> a.den]

FSub(a, b) == FAdd(a, FNeg(b))

FMul(a, b) ==
    IF IsNaN(a) \/ IsNaN(b) THEN NaN
    ELSE Quot(a.num * b.num, a.den * b.den)

FDiv(a, b) ==
    IF IsNaN(a) \/ IsNaN(b) THEN NaN
    ELSE IF a.den = 0 /\ b.den = 0 THEN NaN
    ELSE IF b.num < 0 THEN Quot(-(a.num * b.den), a.den * (-b.num))
    ELSE Quot(a.num * b.den, a.den * b.num)

\* Python abs() on a float
FAbs(a) == [num |-> IAbs(a.num), den |-> a.den]

\* a < b on floats: False as soon as one operand is NaN
Lt(a, b) == ~IsNaN(a) /\ ~IsNaN(b) /\ a.num * b.den < b.num * a.den

Gt(a, b) == Lt(b, a)

\* ------------------------------------------------------------------------
\* pandas Series operations (a column is a sequence of floats)
\* ------------------------------------------------------------------------
Col(frame, f) == [i \in 1..Len(frame) |-> frame[i][f]]

RECURSIVE SumSeq(_)
SumSeq(xs) == IF xs = <<>> THEN F(0) ELSE FAdd(Head(xs), SumSeq(Tail(xs)))

NotNaN(x) == ~IsNaN(x)

\* variant: the mean of whatever observations the window holds (min_periods = 1)
RollingMean_MinPeriods1(xs, w) ==
    [i \in 1..Len(xs) |->
        LET lo  == IF i - w + 1 < 1 THEN 1 ELSE i - w + 1
            win == IF lo > i THEN <<>> ELSE SubSeq(xs, lo, i)
            obs == SelectSeq(win, NotNaN)
        IN  IF Len(obs) >= 1
            THEN FDiv(SumSeq(obs), F(Len(obs)))
            ELSE NaN]

\* variant: a full window averages its present cells and skips the missing
RollingMean_SkipNaN(xs, w) ==
    [i \in 1..Len(xs) |->
        LET lo  == IF i - w + 1 < 1 THEN 1 ELSE i - w + 1
            win == IF lo > i THEN <<>> ELSE SubSeq(xs, lo, i)
            obs == SelectSeq(win, NotNaN)
        IN  IF Len(win) >= w /\ Len(obs) > 0
            THEN FDiv(SumSeq(obs), F(Len(obs)))
            ELSE NaN]

\* Series.rolling(w).mean() with the default min_periods = w: the window at
\* row i is rows max(1, i-w+1)..i, NaN cells are not observations, and the
\* mean of the observations is produced when there are at least w of them.
RollingMean(xs, w) ==
    [i \in 1..Len(xs) |->
        LET lo  == IF i - w + 1 < 1 THEN 1 ELSE i - w + 1
            win == IF lo > i THEN <<>> ELSE SubSeq(xs, lo, i)
            obs == SelectSeq(win, NotNaN)
        IN  IF Len(obs) >= w /\ Len(obs) > 0
            THEN FDiv(SumSeq(obs), F(Len(obs)))
            ELSE NaN]

\* Series.diff(): NaN in the first row, x[i] - x[i-1] after it
Diff(xs) == [i \in 1..Len(xs) |-> IF i = 1 THEN NaN ELSE FSub(xs[i], xs[i - 1])]

RECURSIVE FoldMin(_)
FoldMin(xs) ==
    IF Len(xs) = 1 THEN xs[1]
    ELSE LET m == FoldMin(Tail(xs)) IN IF Lt(xs[1], m) THEN xs[1] ELSE m

RECURSIVE FoldMax(_)
FoldMax(xs) ==
    IF Len(xs) = 1 THEN xs[1]
    ELSE LET m == FoldMax(Tail(xs)) IN IF Gt(xs[1], m) THEN xs[1] ELSE m

\* Series.min() / Series.max(): NaN cells are skipped, NaN when none is left
ColMin(xs) == LET obs == SelectSeq(xs, NotNaN) IN IF obs = <<>> THEN NaN ELSE FoldMin(obs)

ColMax(xs) == LET obs == SelectSeq(xs, NotNaN) IN IF obs = <<>> THEN NaN ELSE FoldMax(obs)

\* ------------------------------------------------------------------------
\* DataFrame operations
\* ------------------------------------------------------------------------
RECURSIVE UniqueOf(_, _)
UniqueOf(xs, seen) ==
    IF xs = <<>> THEN <<>>
    ELSE IF Head(xs) \in seen THEN UniqueOf(Tail(xs), seen)
    ELSE <<Head(xs)>> \o UniqueOf(Tail(xs), seen \cup {Head(xs)})

\* cot_df['ticker'].unique(): the tickers in order of first appearance
Unique(df) == UniqueOf([i \in 1..Len(df) |-> df[i].ticker], {})

\* variant: the series is taken from the whole table
FilterTicker_All(df, t) == df

\* cot_df[cot_df['ticker'] == ticker]
FilterTicker(df, t) == SelectSeq(df, LAMBDA r : r.ticker = t)

RECURSIVE Insert(_, _)
Insert(r, sorted) ==
    IF sorted = <<>> THEN <<r>>
    ELSE IF r.date < Head(sorted).date THEN <<r>> \o sorted
    ELSE <<Head(sorted)>> \o Insert(r, Tail(sorted))

\* variant: the series is left in input order
SortValues_Unsorted(df) == df

RECURSIVE SortValues(_)
\* .sort_values('date'): ascending by date
SortValues(df) ==
    IF df = <<>> THEN <<>>
    ELSE Insert(df[Len(df)], SortValues(SubSeq(df, 1, Len(df) - 1)))

\* the grouped, date-sorted series of one ticker (line 119)
TickerData(df, t) == SortValues(FilterTicker(df, t))

\* variant: short_change >= 0 in place of short_change > 0
SellingSignal_ShortGe(net, net_ma, long_change, short_change) ==
    [i \in 1..Len(net) |->
        /\ Lt(net[i], net_ma[i])
        /\ Lt(long_change[i], F(0))
        /\ (Gt(short_change[i], F(0)) \/ short_change[i] = F(0))]

\* variant: the test long_change < 0 is left out
SellingSignal_NoLongTest(net, net_ma, long_change, short_change) ==
    [i \in 1..Len(net) |->
        /\ Lt(net[i], net_ma[i])
        /\ Gt(short_change[i], F(0))]

\* the selling signal of each row (lines 134-136)
SellingSignal(net, net_ma, long_change, short_change) ==
    [i \in 1..Len(net) |->
        /\ Lt(net[i], net_ma[i])
        /\ Lt(long_change[i], F(0))
        /\ Gt(short_change[i], F(0))]

\* variant: max_long_decrease from the greatest long_change
SellingIntensity_MaxLong(long_change, short_change, mask) ==
    LET max_long_decrease  == FAbs(ColMax(long_change))
        max_short_increase == ColMax(short_change)
    IN  [i \in 1..Len(mask) |->
            IF mask[i]
            THEN FAdd(FDiv(FMul(F(50), FAbs(long_change[i])), max_long_decrease),
                      FDiv(FMul(F(50), short_change[i]), max_short_increase))
            ELSE F(0)]

\* variant: max_short_increase from the greatest absolute short_change
SellingIntensity_AbsShort(long_change, short_change, mask) ==
    LET max_long_decrease  == FAbs(ColMin(long_change))
        max_short_increase == ColMax([i \in 1..Len(short_change) |-> FAbs(short_change[i])])
    IN  [i \in 1..Len(mask) |->
            IF mask[i]
            THEN FAdd(FDiv(FMul(F(50), FAbs(long_change[i])), max_long_decrease),
                      FDiv(FMul(F(50), short_change[i]), max_short_increase))
            ELSE F(0)]

\* the selling intensity of each row (lines 138-148)
SellingIntensity(long_change, short_change, mask) ==
    LET max_long_decrease  == FAbs(ColMin(long_change))
        max_short_increase == ColMax(short_change)
    IN  [i \in 1..Len(mask) |->
            IF mask[i]
            THEN FAdd(FDiv(FMul(F(50), FAbs(long_change[i])), max_long_decrease),
                      FDiv(FMul(F(50), short_change[i]), max_short_increase))
            ELSE F(0)]

\* the columns added to one ticker's sorted series (lines 121-148)
Enrich(td, w) ==
    LET net          == Col(td, "net")
        long         == Col(td, "long")
        short        == Col(td, "short")
        net_ma       == RollingMean(net, w)
        long_ma      == RollingMean(long, w)
        net_change   == Diff(net)
        long_change  == Diff(long)
        short_change == Diff(short)
        signal       == SellingSignal(net, net_ma, long_change, short_change)
        intensity    == SellingIntensity(long_change, short_change, signal)
    IN  [i \in 1..Len(td) |->
            [ticker            |-> td[i].ticker,
             date              |-> td[i].date,
             net               |-> td[i].net,
             long              |-> td[i].long,
             short             |-> td[i].short,
             spreading         |-> td[i].spreading,
             net_ma            |-> net_ma[i],
             long_ma           |-> long_ma[i],
             net_change        |-> net_change[i],
             long_change       |-> long_change[i],
             short_change      |-> short_change[i],
             selling_signal    |-> signal[i],
             selling_intensity |-> intensity[i]]]

RECURSIVE Concat(_)
\* pd.concat(result, ignore_index=True): the frames one after the other
Concat(frames) == IF frames = <<>> THEN <<>> ELSE Head(frames) \o Concat(Tail(frames))

\* the value returned for a table with columns and a window >= 0
\* (lines 116-152 as one function)
Detect(df, w) ==
    LET ts == Unique(df)
    IN  Concat([k \in 1..Len(ts) |-> Enrich(TickerData(df, ts[k]), w)])

\* ------------------------------------------------------------------------
\* State
\* ------------------------------------------------------------------------
VARIABLES
    cot_df,        \* the input table, a sequence of rows
    has_columns,   \* whether the input frame has its columns
    window,        \* the window argument
    pc,            \* "start", "loop", "done" or "raised"
    tickers,       \* the sequence the for loop of line 118 iterates over
    idx,           \* number of loop iterations completed
    ticker_data,   \* the frame grouped and sorted by the current iteration
    result,        \* the list of per-ticker frames
    ret,           \* the returned table
    error          \* the exception raised, "" when none

vars == <<cot_df, has_columns, window, pc, tickers, idx, ticker_data, result, ret, error>>

Tickers == {"A", "B"}

\* window sizes tried: invalid, zero, every span up to the longest table, and
\* the default
Windows == (-1..MaxRows) \cup {DefaultWindow}

\* position counts of a single series: none, one contract, the largest
Levels == {0, 1, MaxVal}

Extremes == {0, MaxVal}

\* one record of the provider: the net position is long minus short
Obs(t, d, l, s) ==
    [ticker |-> t, date |-> d, net |-> F(l - s), long |-> F(l), short |-> F(s),
     spreading |-> F(0)]

\* every position column used in arithmetic holds at least one number
NumericFrame(df) ==
    \A f \in {"net", "long", "short"} : \E i \in 1..Len(df) : ~IsNaN(df[i][f])

\* the dates of each ticker's rows are 1..k, each once
ConsecutiveDates(df) ==
    \A t \in Tickers :
        LET td == FilterTicker(df, t)
        IN  \A d \in 1..Len(td) : Cardinality({i \in 1..Len(td) : td[i].date = d}) = 1

InitCall ==
    /\ window \in Windows
    /\ has_columns \in (IF cot_df = <<>> THEN BOOLEAN ELSE {TRUE})
    /\ pc = "start"
    /\ tickers = <<>>
    /\ idx = 0
    /\ ticker_data = <<>>
    /\ result = <<>>
    /\ ret = <<>>
    /\ error = ""

\* tables of two instruments in any row order, positions at the extremes
PairTable ==
    \E n \in 0..MaxRows :
      \E ts \in [1..n -> Tickers] :
        \E ds \in [1..n -> 1..n] :
          \E ls \in [1..n -> Extremes \X Extremes] :
            cot_df = [i \in 1..n |-> Obs(ts[i], ds[i], ls[i][1], ls[i][2])]

\* one instrument in date order, every position level
SeriesTable ==
    \E n \in 0..MaxRows :
      \E ls \in [1..n -> Levels \X Levels] :
        cot_df = [i \in 1..n |-> Obs("A", i, ls[i][1], ls[i][2])]

\* one instrument in date order with one missing cell
MissingTable ==
    \E n \in 1..MaxRows :
      \E ls \in [1..n -> Extremes \X Extremes] :
        \E k \in 1..n :
          \E f \in {"net", "long", "short"} :
            cot_df = [i \in 1..n |->
                        IF i = k
                        THEN [Obs("A", i, ls[i][1], ls[i][2]) EXCEPT ![f] = NaN]
                        ELSE Obs("A", i, ls[i][1], ls[i][2])]

Init ==
    /\ PairTable
    /\ ConsecutiveDates(cot_df)
    /\ InitCall

InitSeries ==
    /\ SeriesTable \/ (MissingTable /\ NumericFrame(cot_df))
    /\ InitCall

\* ------------------------------------------------------------------------
\* Steps of detect_pension_fund_selling
\* ------------------------------------------------------------------------
\* line 118: cot_df['ticker'].unique()
UniqueTickers ==
    /\ pc = "start"
    /\ has_columns
    /\ tickers' = Unique(cot_df)
    /\ pc' = "loop"
    /\ UNCHANGED <<cot_df, has_columns, window, idx, ticker_data, result, ret, error>>

\* line 118 on a frame without a 'ticker' column
UniqueKeyError ==
    /\ pc = "start"
    /\ ~has_columns
    /\ pc' = "raised"
    /\ error' = "KeyError"
    /\ UNCHANGED <<cot_df, has_columns, window, tickers, idx, ticker_data, result, ret>>

\* lines 119-150: one iteration of the loop
LoopBody ==
    /\ pc = "loop"
    /\ idx < Len(tickers)
    /\ window >= 0
    /\ ticker_data' = TickerData(cot_df, tickers[idx + 1])
    /\ result' = Append(result, Enrich(ticker_data', window))
    /\ idx' = idx + 1
    /\ UNCHANGED <<cot_df, has_columns, window, pc, tickers, ret, error>>

\* lines 119-122 with a negative window: rolling() raises after the grouping
LoopBodyValueError ==
    /\ pc = "loop"
    /\ idx < Len(tickers)
    /\ window < 0
    /\ ticker_data' = TickerData(cot_df, tickers[idx + 1])
    /\ pc' = "raised"
    /\ error' = "ValueError: window must be an integer 0 or greater"
    /\ UNCHANGED <<cot_df, has_columns, window, tickers, idx, result, ret>>

\* line 152: return pd.concat(result, ignore_index=True)
Return ==
    /\ pc = "loop"
    /\ idx = Len(tickers)
    /\ result # <<>>
    /\ ret' = Concat(result)
    /\ pc' = "done"
    /\ UNCHANGED <<cot_df, has_columns, window, tickers, idx, ticker_data, result, error>>

\* line 152 with no frame to concatenate
ReturnValueError ==
    /\ pc = "loop"
    /\ idx = Len(tickers)
    /\ result = <<>>
    /\ pc' = "raised"
    /\ error' = "ValueError: No objects to concatenate"
    /\ UNCHANGED <<cot_df, has_columns, window, tickers, idx, ticker_data, result, ret>>

Next ==
    \/ UniqueTickers
    \/ UniqueKeyError
    \/ LoopBody
    \/ LoopBodyValueError
    \/ Return
    \/ ReturnValueError

Spec == Init /\ [][Next]_vars

SpecSeries == InitSeries /\ [][Next]_vars

\* ------------------------------------------------------------------------
\* Properties
\* ------------------------------------------------------------------------
Done == pc = "done"

Defined(x) == x.den > 0

\* a < b for defined a and b
Less(a, b) == a.num * b.den < b.num * a.den

\* the rows of instrument t in a table, in table order
RowsOf(table, t) == SelectSeq(table, LAMBDA r : r.ticker = t)

Reverse(s) == [i \in 1..Len(s) |-> s[Len(s) + 1 - i]]

\* every instrument's rows are in ascending date order
Ascending(df) ==
    \A i, j \in 1..Len(df) :
        (i < j /\ df[i].ticker = df[j].ticker) => df[i].date < df[j].date

RECURSIVE SumNum(_, _, _, _)
\* sum of the integer cells rows[lo..hi][f]
SumNum(rows, f, lo, hi) ==
    IF lo > hi THEN 0 ELSE rows[hi][f].num + SumNum(rows, f, lo, hi - 1)

\* the defined values of column f over a sequence of rows
DefinedCells(rows, f) == {rows[i][f] : i \in {k \in 1..Len(rows) : Defined(rows[k][f])}}

\* C1: a row of the output signals exactly when net, net_ma, long_change and
\* short_change are all defined and net < net_ma, long_change < 0 and
\* short_change > 0; a row with one of the four missing does not signal.
C1_SignalIff ==
    Done =>
      \A i \in 1..Len(ret) :
        LET r == ret[i]
        IN  r.selling_signal <=>
              /\ Defined(r.net) /\ Defined(r.net_ma)
              /\ Defined(r.long_change) /\ Defined(r.short_change)
              /\ Less(r.net, r.net_ma)
              /\ r.long_change.num < 0
              /\ r.short_change.num > 0

C1_Witness ==
    /\ Done
    /\ \E i \in 1..Len(ret) : ret[i].selling_signal
    /\ \E i \in 1..Len(ret) : IsNaN(ret[i].net) \/ IsNaN(ret[i].long) \/ IsNaN(ret[i].short)

\* C2: every output row has 0 <= selling_intensity <= 100, and
\* selling_intensity = 0 when the row does not signal.
C2_IntensityBound ==
    Done =>
      \A i \in 1..Len(ret) :
        LET x == ret[i].selling_intensity
        IN  /\ Defined(x)
            /\ 0 <= x.num
            /\ x.num <= 100 * x.den
            /\ ~ret[i].selling_signal => x = F(0)

C2_Witness ==
    /\ Done
    /\ \E i \in 1..Len(ret) :
         /\ ret[i].selling_signal
         /\ Less(F(0), ret[i].selling_intensity)
         /\ Less(ret[i].selling_intensity, F(100))
    /\ \E i \in 1..Len(ret) : ~ret[i].selling_signal

\* C3: a signalling row has selling_intensity =
\* 50 * |long_change| / D + 50 * short_change / U, where D is the absolute
\* value of the least long_change and U the greatest short_change among the
\* rows of the same instrument; a signalling row that attains both has
\* selling_intensity = 100.
C3_IntensityFormula ==
    Done =>
      \A i \in 1..Len(ret) :
        ret[i].selling_signal =>
          LET r    == ret[i]
              rows == RowsOf(ret, r.ticker)
              lcs  == DefinedCells(rows, "long_change")
              scs  == DefinedCells(rows, "short_change")
              lmin == CHOOSE x \in lcs : \A y \in lcs : ~Less(y, x)
              smax == CHOOSE x \in scs : \A y \in scs : ~Less(x, y)
              D    == -lmin.num
              U    == smax.num
              a    == -r.long_change.num
              b    == r.short_change.num
              x    == r.selling_intensity
          IN  /\ lmin.den = 1 /\ smax.den = 1
              /\ r.long_change.den = 1 /\ r.short_change.den = 1
              /\ D > 0 /\ U > 0
              /\ Defined(x)
              /\ x.num * D * U = x.den * 50 * (a * U + b * D)
              /\ (r.long_change = lmin /\ r.short_change = smax) => x = F(100)

C3_Witness ==
    /\ Done
    /\ \E i, j \in 1..Len(ret) :
         /\ i # j
         /\ ret[i].selling_signal /\ ret[i].selling_intensity = F(75)
         /\ ret[j].selling_signal /\ ret[j].long_change # ret[i].long_change

\* C4: the rows the transform returns for an instrument of a table are the
\* rows it returns when run on that instrument's rows alone.
C4_NoLeakage ==
    Done =>
      \A t \in Tickers :
        RowsOf(cot_df, t) # <<>> =>
          RowsOf(ret, t) = Detect(RowsOf(cot_df, t), window)

C4_Witness ==
    /\ Done
    /\ RowsOf(cot_df, "A") # <<>>
    /\ RowsOf(cot_df, "B") # <<>>
    /\ \E i \in 1..Len(ret) : ret[i].selling_signal

\* C5 (as stated): a table whose series are in ascending date order and the
\* same records in reverse order give identical output, row order included.
C5_ReverseIdentical ==
    (Done /\ Ascending(cot_df)) => Detect(Reverse(cot_df), window) = ret

\* C5 (amended): both orders give every instrument the same rows with the
\* same derived values in the same order, and identical tables when the
\* instruments first appear in the same order in both inputs.
C5_ReverseSameSeries ==
    (Done /\ Ascending(cot_df)) =>
      LET rev == Detect(Reverse(cot_df), window)
      IN  /\ \A t \in Tickers : RowsOf(rev, t) = RowsOf(ret, t)
          /\ Unique(Reverse(cot_df)) = tickers => rev = ret

C5_Witness ==
    /\ Done
    /\ Ascending(cot_df)
    /\ Len(tickers) = 2
    /\ Len(cot_df) >= 3
    /\ Unique(Reverse(cot_df)) = tickers
    /\ Reverse(cot_df) # cot_df
    /\ \E i \in 1..Len(ret) : ret[i].selling_signal

\* C6: a window <= 0 is rejected before any computation: no instrument is
\* grouped or sorted, no derived column is computed, nothing is returned.
C6_RejectedBeforeComputation ==
    window <= 0 => (ticker_data = <<>> /\ result = <<>> /\ pc # "done")

\* C7: the transform returns without raising, and the returned table has
\* exactly one row for every input row with the input fields unchanged.
C7_FullTable ==
    window >= 1 =>
      /\ pc # "raised"
      /\ Done =>
           /\ Len(ret) = Len(cot_df)
           /\ \A i \in 1..Len(cot_df) :
                Cardinality({j \in 1..Len(ret) :
                    \A f \in {"ticker", "date", "net", "long", "short", "spreading"} :
                        ret[j][f] = cot_df[i][f]}) = 1

C9_MovingAverage ==
    (Done /\ window >= 1) =>
      \A t \in Tickers :
        LET rows == RowsOf(ret, t)
        IN  \A i \in 1..Len(rows) :
              /\ i > 1 => rows[i - 1].date < rows[i].date
              /\ \A c \in {<<"net", "net_ma">>, <<"long", "long_ma">>} :
                   LET ma   == rows[i][c[2]]
                       full == /\ i >= window
                               /\ \A k \in (i - window + 1)..i : Defined(rows[k][c[1]])
                   IN  IF full
                       THEN /\ Defined(ma)
                            /\ ma.num * window
                                 = ma.den * SumNum(rows, c[1], i - window + 1, i)
                       ELSE IsNaN(ma)

C9_Witness ==
    /\ Done
    /\ window = 2
    /\ Len(ret) = 3
    /\ IsNaN(ret[1].net_ma)
    /\ IsNaN(ret[1].net)
    /\ IsNaN(ret[2].net_ma)
    /\ Defined(ret[3].net_ma)
    /\ ret[3].net_ma.den = 2

\* C10: in a series with fewer than W rows every net_ma and long_ma is
\* missing, no row signals and every selling_intensity is 0.
C10_ShortSeries ==
    Done =>
      \A t \in Tickers :
        LET rows == RowsOf(ret, t)
        IN  Len(rows) < window =>
              \A i \in 1..Len(rows) :
                /\ IsNaN(rows[i].net_ma)
                /\ IsNaN(rows[i].long_ma)
                /\ ~rows[i].selling_signal
                /\ rows[i].selling_intensity = F(0)

C10_Witness ==
    /\ Done
    /\ Len(ret) = 2
    /\ window = 3
    /\ Less(ret[2].net, ret[1].net)
    /\ Less(ret[2].long_change, F(0))
    /\ Less(F(0), ret[2].short_change)
====
